---- MODULE Spec2Model ----
(***************************************************************************)
(* Model of ScriptGenerator.py: the LLSD XML parser (parse_llsd_xml,       *)
(* parse_section, parse_item, parse_value) and the LSL fixture generator   *)
(* (get_event_parameters, generate_lsl_script).                            *)
(*                                                                         *)
(* Python values are records [k |-> kind, v |-> payload]; a dict is the     *)
(* insertion-ordered sequence of its <<key, value>> pairs.  Python strings  *)
(* are TLA+ strings; an XML element is [tag, text, children].               *)
(***************************************************************************)
EXTENDS Integers, Sequences, FiniteSets, TLC

VARIABLES doc, data, lsl_lines, pc, ev, ci, fi, const_value, result

vars == <<doc, data, lsl_lines, pc, ev, ci, fi, const_value, result>>

---------------------------------------------------------------------------
(* Python values *)

PyNone == [k |-> "none", v |-> ""]

PyStr(s) == [k |-> "str", v |-> s]

PyInt(n) == [k |-> "int", v |-> n]

\* a float n / 10^scale, trailing zeros of the fraction removed
PyFloat(n, scale) == [k |-> "float", v |-> <<n, scale>>]

PyList(items) == [k |-> "list", v |-> items]

PyDict(pairs) == [k |-> "dict", v |-> pairs]

\* an exception travelling up the call stack
Raise(name) == [k |-> "raise", v |-> name]

IsRaise(x) == x.k = "raise"

\* truth value of a Python object, as `if x` / `x or y` / `a and b` test it
Truthy(x) ==
    CASE x.k = "none" -> FALSE
      [] x.k = "str" -> x.v # ""
      [] x.k = "int" -> x.v # 0
      [] x.k = "float" -> x.v[1] # 0
      [] x.k = "list" -> Len(x.v) > 0
      [] x.k = "dict" -> Len(x.v) > 0
      [] OTHER -> TRUE

\* key in d
DictHas(d, key) == \E j \in 1..Len(d.v) : d.v[j][1] = key

\* d.get(key, default)
DictGet(d, key, default) ==
    IF DictHas(d, key)
    THEN d.v[CHOOSE j \in 1..Len(d.v) : d.v[j][1] = key][2]
    ELSE default

\* d[key] = val : an existing key keeps its position, a new key goes last
DictSet(d, key, val) ==
    IF DictHas(d, key)
    THEN PyDict([j \in 1..Len(d.v) |->
                    IF d.v[j][1] = key THEN <<key, val>> ELSE d.v[j]])
    ELSE PyDict(Append(d.v, <<key, val>>))

---------------------------------------------------------------------------
(* Text: int(), float(), str() *)

Digits == <<"0", "1", "2", "3", "4", "5", "6", "7", "8", "9">>

IsDigit(c) == \E d \in 1..10 : Digits[d] = c

DigitVal(c) == (CHOOSE d \in 1..10 : Digits[d] = c) - 1

IsSpace(c) == c \in {" ", "\t", "\n", "\r"}

CharAt(s, j) == SubSeq(s, j, j)

RECURSIVE lstrip(_)
lstrip(s) ==
    IF Len(s) > 0 /\ IsSpace(CharAt(s, 1))
    THEN lstrip(SubSeq(s, 2, Len(s)))
    ELSE s

RECURSIVE rstrip(_)
rstrip(s) ==
    IF Len(s) > 0 /\ IsSpace(CharAt(s, Len(s)))
    THEN rstrip(SubSeq(s, 1, Len(s) - 1))
    ELSE s

strip(s) == rstrip(lstrip(s))

\* digits, single underscores allowed between two digits
IsDigitRun(s) ==
    /\ Len(s) > 0
    /\ IsDigit(CharAt(s, 1))
    /\ IsDigit(CharAt(s, Len(s)))
    /\ \A j \in 1..Len(s) :
          \/ IsDigit(CharAt(s, j))
          \/ CharAt(s, j) = "_" /\ IsDigit(CharAt(s, j - 1)) /\ IsDigit(CharAt(s, j + 1))

RECURSIVE DigitRunVal(_, _)
DigitRunVal(s, acc) ==
    IF Len(s) = 0 THEN acc
    ELSE IF CharAt(s, 1) = "_" THEN DigitRunVal(SubSeq(s, 2, Len(s)), acc)
    ELSE DigitRunVal(SubSeq(s, 2, Len(s)), 10 * acc + DigitVal(CharAt(s, 1)))

HasSign(s) == Len(s) > 0 /\ CharAt(s, 1) \in {"+", "-"}

Unsigned(s) == IF HasSign(s) THEN SubSeq(s, 2, Len(s)) ELSE s

\* int(s) of a str: the integer, or ValueError
int_of_str(s) ==
    LET t == strip(s)
        u == Unsigned(t)
    IN  IF IsDigitRun(u)
        THEN PyInt(IF HasSign(t) /\ CharAt(t, 1) = "-"
                   THEN 0 - DigitRunVal(u, 0) ELSE DigitRunVal(u, 0))
        ELSE Raise("ValueError")

RECURSIVE NatStr(_)
NatStr(n) ==
    IF n < 10 THEN Digits[n + 1]
    ELSE NatStr(n \div 10) \o Digits[(n % 10) + 1]

\* str(n) of an int
str_of_int(n) == IF n < 0 THEN "-" \o NatStr(0 - n) ELSE NatStr(n)

\* n / 10^scale with the trailing zeros of the fraction removed
RECURSIVE NormFloat(_, _)
NormFloat(n, scale) ==
    IF scale > 0 /\ n % 10 = 0 THEN NormFloat(n \div 10, scale - 1)
    ELSE PyFloat(n, scale)

\* float(s) of a str written as [sign] digits [. digits] or [sign] . digits
\* (the texts of the model's <real> elements use no exponent, inf or nan)
float_of_str(s) ==
    LET t == strip(s)
        u == Unsigned(t)
        dots == {j \in 1..Len(u) : CharAt(u, j) = "."}
        neg == HasSign(t) /\ CharAt(t, 1) = "-"
        Signed(n) == IF neg THEN 0 - n ELSE n
    IN  IF dots = {}
        THEN IF IsDigitRun(u) THEN PyFloat(Signed(DigitRunVal(u, 0)), 0)
             ELSE Raise("ValueError")
        ELSE LET d == CHOOSE j \in dots : TRUE
                 whole == SubSeq(u, 1, d - 1)
                 frac == SubSeq(u, d + 1, Len(u))
             IN  IF /\ Cardinality(dots) = 1
                    /\ whole = "" \/ IsDigitRun(whole)
                    /\ frac = "" \/ IsDigitRun(frac)
                    /\ whole # "" \/ frac # ""
                 THEN LET fd == IF frac = "" THEN 0 ELSE DigitRunVal(frac, 0)
                          wd == IF whole = "" THEN 0 ELSE DigitRunVal(whole, 0)
                          sc == Cardinality({j \in 1..Len(frac) : IsDigit(CharAt(frac, j))})
                      IN  NormFloat(Signed(wd * (10 ^ sc) + fd), sc)
                 ELSE Raise("ValueError")

---------------------------------------------------------------------------
(* XML elements, as xml.etree.ElementTree presents them *)

\* text is PyNone for an element without character data
Elem(tag, text, children) == [tag |-> tag, text |-> text, children |-> children]

\* root.find('map'): the direct children whose tag is map, first one first;
\* the empty sequence stands for None
find_map(root) ==
    SelectSeq(root.children, LAMBDA c : c.tag = "map")

---------------------------------------------------------------------------
(* SchemaParser *)

RECURSIVE parse_value(_)
RECURSIVE parse_item_loop(_, _, _)
RECURSIVE parse_array_loop(_, _, _)

\* [parse_value(child) for child in value_elem], from child j on
parse_array_loop(value_elem, j, acc) ==
    IF j > Len(value_elem.children) THEN PyList(acc)
    ELSE LET pv == parse_value(value_elem.children[j])
         IN  IF IsRaise(pv) THEN pv
             ELSE parse_array_loop(value_elem, j + 1, Append(acc, pv))

\* the loop of parse_item from 0-based index i on (i = 0, 2, 4, ...)
parse_item_loop(item_map, i, item_data) ==
    IF i >= Len(item_map.children) THEN item_data
    ELSE IF i + 1 >= Len(item_map.children) THEN item_data
    ELSE LET key_elem == item_map.children[i + 1]
             value_elem == item_map.children[i + 2]
         IN  IF key_elem.tag = "key"
             THEN LET pv == parse_value(value_elem)
                  IN  IF IsRaise(pv) THEN pv
                      ELSE parse_item_loop(item_map, i + 2,
                                           DictSet(item_data, key_elem.text, pv))
             ELSE parse_item_loop(item_map, i + 2, item_data)

\* parse_item giving up on a map with a stray last child
parse_item_even_only(item_map) ==
    IF Len(item_map.children) % 2 = 1 THEN PyDict(<<>>)
    ELSE parse_item_loop(item_map, 0, PyDict(<<>>))

parse_item(item_map) == parse_item_loop(item_map, 0, PyDict(<<>>))

parse_value(value_elem) ==
    CASE value_elem.tag = "string" ->
            IF Truthy(value_elem.text) THEN value_elem.text ELSE PyStr("")
      [] value_elem.tag = "integer" ->
            IF Truthy(value_elem.text) THEN int_of_str(value_elem.text.v) ELSE PyInt(0)
      [] value_elem.tag = "real" ->
            IF Truthy(value_elem.text) THEN float_of_str(value_elem.text.v) ELSE PyFloat(0, 0)
      [] value_elem.tag = "array" -> parse_array_loop(value_elem, 1, <<>>)
      [] value_elem.tag = "map" -> parse_item(value_elem)
      [] OTHER -> value_elem.text

RECURSIVE parse_section_loop(_, _, _)
\* the loop of parse_section from 0-based index i on
parse_section_loop(section_map, i, section_data) ==
    IF i >= Len(section_map.children) THEN section_data
    ELSE IF i + 1 >= Len(section_map.children) THEN section_data
    ELSE LET key_elem == section_map.children[i + 1]
             value_elem == section_map.children[i + 2]
         IN  IF key_elem.tag = "key" /\ value_elem.tag = "map"
             THEN LET item_data == parse_item(value_elem)
                  IN  IF IsRaise(item_data) THEN item_data
                      ELSE parse_section_loop(section_map, i + 2,
                               DictSet(section_data, key_elem.text, item_data))
             ELSE parse_section_loop(section_map, i + 2, section_data)

parse_section(section_map) == parse_section_loop(section_map, 0, PyDict(<<>>))

EmptyData ==
    PyDict(<< <<PyStr("constants"), PyDict(<<>>)>>,
              <<PyStr("events"), PyDict(<<>>)>>,
              <<PyStr("functions"), PyDict(<<>>)>> >>)

RECURSIVE parse_main_loop_any_key(_, _, _)
\* the loop of parse_llsd_xml storing a section under whatever key names it
parse_main_loop_any_key(main_map, i, d) ==
    IF i >= Len(main_map.children) THEN d
    ELSE IF i + 1 >= Len(main_map.children) THEN d
    ELSE LET key_elem == main_map.children[i + 1]
             value_elem == main_map.children[i + 2]
         IN  IF key_elem.tag = "key" /\ value_elem.tag = "map"
             THEN LET sec == parse_section(value_elem)
                  IN  IF IsRaise(sec) THEN sec
                      ELSE parse_main_loop_any_key(main_map, i + 2,
                                                   DictSet(d, key_elem.text, sec))
             ELSE parse_main_loop_any_key(main_map, i + 2, d)

RECURSIVE parse_main_loop(_, _, _)
\* the loop of parse_llsd_xml from 0-based index i on
parse_main_loop(main_map, i, d) ==
    IF i >= Len(main_map.children) THEN d
    ELSE IF i + 1 >= Len(main_map.children) THEN d
    ELSE LET key_elem == main_map.children[i + 1]
             value_elem == main_map.children[i + 2]
         IN  IF key_elem.tag = "key" /\ value_elem.tag = "map"
             THEN LET section_name == key_elem.text
                  IN  IF DictHas(d, section_name)
                      THEN LET sec == parse_section(value_elem)
                           IN  IF IsRaise(sec) THEN sec
                               ELSE parse_main_loop(main_map, i + 2,
                                                    DictSet(d, section_name, sec))
                      ELSE parse_main_loop(main_map, i + 2, d)
             ELSE parse_main_loop(main_map, i + 2, d)

\* parse_llsd_xml applied to the root element ET.parse produced
parse_llsd_xml(root) ==
    LET main_map == find_map(root)
    IN  IF main_map = <<>> THEN EmptyData
        ELSE parse_main_loop(main_map[1], 0, EmptyData)

---------------------------------------------------------------------------
(* str methods and formatting used by the generator *)

\* s.startswith(prefix)
startswith(s, prefix) ==
    Len(s) >= Len(prefix) /\ SubSeq(s, 1, Len(prefix)) = prefix

RECURSIVE replace(_, _, _)
\* s.replace(old, new) for a non-empty old
replace(s, old, new) ==
    IF Len(s) < Len(old) THEN s
    ELSE IF startswith(s, old)
    THEN new \o replace(SubSeq(s, Len(old) + 1, Len(s)), old, new)
    ELSE CharAt(s, 1) \o replace(SubSeq(s, 2, Len(s)), old, new)

\* str(x) of a float n / 10^scale in positional notation
str_of_float(n, scale) ==
    LET a == IF n < 0 THEN 0 - n ELSE n
        whole == NatStr(a \div (10 ^ scale))
        f == NatStr(a % (10 ^ scale))
        pad == [j \in 1..(scale - Len(f)) |-> "0"]
        RECURSIVE Cat(_)
        Cat(q) == IF q = <<>> THEN "" ELSE Head(q) \o Cat(Tail(q))
    IN  (IF n < 0 THEN "-" ELSE "") \o whole \o "." \o
        (IF scale = 0 THEN "0" ELSE Cat(pad) \o f)

\* the text an f-string puts for {x}; names and types are scalars here
format(x) ==
    CASE x.k = "str" -> x.v
      [] x.k = "int" -> str_of_int(x.v)
      [] x.k = "float" -> str_of_float(x.v[1], x.v[2])
      [] x.k = "none" -> "None"

RECURSIVE join(_, _)
\* sep.join(strings)
join(sep, strings) ==
    IF Len(strings) = 0 THEN ""
    ELSE IF Len(strings) = 1 THEN strings[1]
    ELSE strings[1] \o sep \o join(sep, Tail(strings))

\* what `for x in obj` iterates over: list items, dict keys, the characters
\* of a str; TypeError for an object that is not iterable
iter(obj) ==
    CASE obj.k = "list" -> obj
      [] obj.k = "dict" -> PyList([j \in 1..Len(obj.v) |-> obj.v[j][1]])
      [] obj.k = "str" -> PyList([j \in 1..Len(obj.v) |-> PyStr(CharAt(obj.v, j))])
      [] OTHER -> Raise("TypeError")

---------------------------------------------------------------------------
(* ScriptGenerator *)

RECURSIVE param_items_loop(_, _, _)
\* for param_name, param_data in arg_map.items(): from entry b on
param_items_loop(arg_map, b, parameters) ==
    IF b > Len(arg_map.v) THEN PyList(parameters)
    ELSE LET param_name == arg_map.v[b][1]
             param_data == arg_map.v[b][2]
         IN  IF param_data.k # "dict" THEN Raise("AttributeError")
             ELSE param_items_loop(arg_map, b + 1,
                      Append(parameters,
                             <<param_name, DictGet(param_data, PyStr("type"), PyStr("integer"))>>))

RECURSIVE param_args_loop(_, _, _)
\* for arg_map in event_data['arguments']: from element a on
param_args_loop(arguments, a, parameters) ==
    IF a > Len(arguments) THEN PyList(parameters)
    ELSE LET arg_map == arguments[a]
         IN  IF arg_map.k # "dict" THEN Raise("AttributeError")
             ELSE LET ps == param_items_loop(arg_map, 1, parameters)
                  IN  IF IsRaise(ps) THEN ps
                      ELSE param_args_loop(arguments, a + 1, ps.v)

\* the list of <<param_name, param_type>>, or the exception raised
get_event_parameters(event_data) ==
    IF DictHas(event_data, PyStr("arguments"))
    THEN LET it == iter(DictGet(event_data, PyStr("arguments"), PyNone))
         IN  IF IsRaise(it) THEN it ELSE param_args_loop(it.v, 1, <<>>)
    ELSE PyList(<<>>)

\* the parameter string with each parameter written name first
param_str_name_first(parameters) ==
    IF Len(parameters) > 0
    THEN join(", ", [j \in 1..Len(parameters) |->
                        format(parameters[j][1]) \o " " \o format(parameters[j][2])])
    ELSE ""

\* the parameter string of an event header
param_str(parameters) ==
    IF Len(parameters) > 0
    THEN join(", ", [j \in 1..Len(parameters) |->
                        format(parameters[j][2]) \o " " \o format(parameters[j][1])])
    ELSE ""

\* the text kept for a constant's value without the hex case
normalize_value_no_hex(value) ==
    IF value.k # "str" THEN Raise("AttributeError")
    ELSE LET n == int_of_str(value.v)
         IN  IF IsRaise(n) THEN PyStr("\"" \o value.v \o "\"")
             ELSE PyStr(str_of_int(n.v))

\* the text kept for a constant's value: hex kept, else integer, else quoted
normalize_value(value) ==
    IF value.k # "str" THEN Raise("AttributeError")
    ELSE IF startswith(value.v, "0x") THEN PyStr(replace(value.v, "0x", "0x"))
    ELSE LET n == int_of_str(value.v)
         IN  IF IsRaise(n) THEN PyStr("\"" \o value.v \o "\"")
             ELSE PyStr(str_of_int(n.v))

\* the variable a constant of const_type is assigned to
const_var(const_type) ==
    IF const_type = PyStr("integer") THEN "i"
    ELSE IF const_type = PyStr("float") THEN "f"
    ELSE IF const_type = PyStr("string") THEN "s"
    ELSE IF const_type = PyStr("key") THEN "k"
    ELSE IF const_type = PyStr("vector") THEN "v"
    ELSE IF const_type = PyStr("rotation") THEN "r"
    ELSE "i"

\* the variable passed for an argument of arg_type
arg_var(arg_type) ==
    IF arg_type = PyStr("integer") THEN "i"
    ELSE IF arg_type = PyStr("float") THEN "f"
    ELSE IF arg_type = PyStr("string") THEN "s"
    ELSE IF arg_type = PyStr("key") THEN "k"
    ELSE IF arg_type = PyStr("vector") THEN "v"
    ELSE IF arg_type = PyStr("rotation") THEN "r"
    ELSE IF arg_type = PyStr("list") THEN "l"
    ELSE "i"

RECURSIVE arg_items_loop(_, _, _)
\* for arg_name, arg_data in arg.items(): from entry b on
arg_items_loop(arg, b, args) ==
    IF b > Len(arg.v) THEN PyList(args)
    ELSE LET arg_data == arg.v[b][2]
         IN  IF arg_data.k # "dict" THEN Raise("AttributeError")
             ELSE arg_items_loop(arg, b + 1,
                      Append(args, arg_var(DictGet(arg_data, PyStr("type"), PyStr("integer")))))

RECURSIVE args_loop(_, _, _)
\* for arg in func_data['arguments']: from element a on
args_loop(arguments, a, args) ==
    IF a > Len(arguments) THEN PyList(args)
    ELSE LET arg == arguments[a]
         IN  IF arg.k # "dict" THEN Raise("AttributeError")
             ELSE LET as == arg_items_loop(arg, 1, args)
                  IN  IF IsRaise(as) THEN as
                      ELSE args_loop(arguments, a + 1, as.v)

\* the call expression of a function, or the exception raised
func_call(func_name, func_data) ==
    IF /\ DictHas(func_data, PyStr("arguments"))
       /\ Truthy(DictGet(func_data, PyStr("arguments"), PyNone))
    THEN LET it == iter(DictGet(func_data, PyStr("arguments"), PyNone))
         IN  IF IsRaise(it) THEN it
             ELSE LET args == args_loop(it.v, 1, <<>>)
                  IN  IF IsRaise(args) THEN args
                      ELSE PyStr(format(func_name) \o "(" \o join(", ", args.v) \o ")")
    ELSE PyStr(format(func_name) \o "()")

\* the statement line of a call without the void case
func_line_void_assigned(return_type, call) ==
    IF return_type = PyStr("integer") THEN "        i=" \o call \o ";"
    ELSE IF return_type = PyStr("float") THEN "        f=" \o call \o ";"
    ELSE IF return_type = PyStr("string") THEN "        s=" \o call \o ";"
    ELSE IF return_type = PyStr("key") THEN "        k=" \o call \o ";"
    ELSE IF return_type = PyStr("vector") THEN "        v=" \o call \o ";"
    ELSE IF return_type = PyStr("rotation") THEN "        r=" \o call \o ";"
    ELSE IF return_type = PyStr("list") THEN "        l=" \o call \o ";"
    ELSE "        i=" \o call \o ";"

\* the statement line of a call, by return type
func_line(return_type, call) ==
    IF return_type = PyStr("void") THEN "        " \o call \o ";"
    ELSE IF return_type = PyStr("integer") THEN "        i=" \o call \o ";"
    ELSE IF return_type = PyStr("float") THEN "        f=" \o call \o ";"
    ELSE IF return_type = PyStr("string") THEN "        s=" \o call \o ";"
    ELSE IF return_type = PyStr("key") THEN "        k=" \o call \o ";"
    ELSE IF return_type = PyStr("vector") THEN "        v=" \o call \o ";"
    ELSE IF return_type = PyStr("rotation") THEN "        r=" \o call \o ";"
    ELSE IF return_type = PyStr("list") THEN "        l=" \o call \o ";"
    ELSE "        i=" \o call \o ";"

Events == DictGet(data, PyStr("events"), PyNone).v

Constants == DictGet(data, PyStr("constants"), PyNone).v

Functions == DictGet(data, PyStr("functions"), PyNone).v

\* the variable declarations and the opening of the default state
Preamble ==
    <<"float f;", "integer i;", "key k;", "list l;", "quaternion q;",
      "rotation r;", "string s;", "vector v;", "", "default", "{">>

---------------------------------------------------------------------------
(* Documents: the element trees the run starts from *)

MaxConstants == 2

MaxEvents == 2

MaxFunctions == 2

MaxArguments == 2

MaxPairs == 3

\* an element without character data has text None
Leaf(tag, s) == Elem(tag, IF s = "" THEN PyNone ELSE PyStr(s), <<>>)

Key(s) == Leaf("key", s)

Map(children) == Elem("map", PyNone, children)

Array(children) == Elem("array", PyNone, children)

RECURSIVE Flatten(_)
Flatten(seqs) == IF seqs = <<>> THEN <<>> ELSE Head(seqs) \o Flatten(Tail(seqs))

\* sequences of 0..n elements: all but the last from Core, the last from Full
RECURSIVE SeqsOver(_, _, _)
SeqsOver(Core, Full, n) ==
    IF n = 0 THEN {<<>>}
    ELSE {<<>>} \cup {<<x>> : x \in Full}
         \cup {<<c>> \o q : c \in Core, q \in SeqsOver(Core, Full, n - 1) \ {<<>>}}

TypeNames ==
    {"integer", "float", "string", "key", "vector", "rotation", "list",
     "quaternion", "bogus"}

\* a <key>name</key> value pair, or nothing when the attribute is absent
Attr(name, value_elems) == {<<>>} \cup {<<Key(name), e>> : e \in value_elems}

TypeAttrs == Attr("type", {Leaf("string", t) : t \in TypeNames} \cup {Leaf("integer", "7")})

ValueTexts ==
    {"1", "0x1F", "0x", "0x0x1", "x0x1", "abc", " 42 ", "-7", "+5", "007",
     "1_000", "1.5", ""}

ValueAttrs ==
    Attr("value", {Leaf("string", t) : t \in ValueTexts}
                  \cup {Leaf("integer", "1"), Leaf("integer", ""), Leaf("real", "1.5"),
                        Leaf("real", ""), Leaf("uuid", ""), Leaf("uuid", "ab")})

\* the <map> of a constant
ConstItem(type_attr, value_attr) == Map(type_attr \o value_attr)

PlainConst == ConstItem(<<Key("type"), Leaf("string", "integer")>>,
                        <<Key("value"), Leaf("string", "1")>>)

ConstItems ==
    {ConstItem(t, <<Key("value"), Leaf("string", "1")>>) : t \in TypeAttrs}
    \cup {ConstItem(<<Key("type"), Leaf("string", "integer")>>, v) : v \in ValueAttrs}

CoreConstItems ==
    {PlainConst,
     ConstItem(<<Key("type"), Leaf("string", "rotation")>>,
               <<Key("value"), Leaf("string", "0x1F")>>),
     ConstItem(<<Key("type"), Leaf("string", "list")>>, <<>>)}

ConstNames == <<"TRUE", "PI", "EOF", "NULL_KEY">>

\* a section <map> holding the items under the names of their positions
Section(names, items) ==
    Map(Flatten([j \in 1..Len(items) |-> <<Key(names[j]), items[j]>>]))

ConstSections ==
    {Section(ConstNames, q) : q \in SeqsOver(CoreConstItems, ConstItems, MaxConstants)}

\* one entry of an arguments array: a single-entry map name -> attributes
ArgEntry(name, type_attr) == Map(<<Key(name), Map(type_attr)>>)

ArgNames == <<"a", "b", "c", "d">>

\* an arguments array of entries of the given type attributes
ArgArray(type_attrs) ==
    Array([j \in 1..Len(type_attrs) |-> ArgEntry(ArgNames[j], type_attrs[j])])

CoreTypeAttrs == {<<>>, <<Key("type"), Leaf("string", "list")>>}

\* values of the arguments attribute that are not an array of entry maps
OddArguments ==
    {Leaf("string", "ab"), Leaf("string", ""), Leaf("integer", "5"),
     Leaf("integer", ""), Leaf("uuid", ""),
     Map(<<Key("a"), Map(<<>>)>>),
     Array(<<Leaf("string", "a")>>),
     Array(<<Map(<<Key("a"), Leaf("string", "integer")>>)>>),
     Array(<<Map(<<Key("a"), Map(<<Key("type"), Leaf("string", "key")>>),
                   Key("b"), Map(<<>>)>>)>>)}

ArgumentsAttrs ==
    Attr("arguments",
         {ArgArray(q) : q \in SeqsOver(CoreTypeAttrs, TypeAttrs, MaxArguments)}
         \cup OddArguments)

EventItems == {Map(a) : a \in ArgumentsAttrs}

CoreEventItems == {Map(<<>>), Map(<<Key("arguments"), ArgArray(<< <<>> >>)>>)}

EventNameOrders ==
    {<<"touch_start", "state_entry", "listen", "timer">>,
     <<"state_entry", "touch_start", "listen", "timer">>,
     <<"state_entry", "listen", "timer", "attach">>}

EventSections ==
    {Section(names, q) : names \in EventNameOrders,
                         q \in SeqsOver(CoreEventItems, EventItems, MaxEvents)}

ReturnAttrs ==
    Attr("return", {Leaf("string", t) : t \in TypeNames \cup {"void"}}
                   \cup {Leaf("integer", "7")})

LlSayArguments ==
    <<Key("arguments"),
      Array(<<Map(<<Key("channel"), Map(<<Key("type"), Leaf("string", "integer")>>)>>),
              Map(<<Key("msg"), Map(<<Key("type"), Leaf("string", "string")>>)>>)>>)>>

LlSay == Map(<<Key("return"), Leaf("string", "void")>> \o LlSayArguments)

FuncItems ==
    {Map(r \o LlSayArguments) : r \in ReturnAttrs}
    \cup {Map(<<Key("return"), Leaf("string", "key")>> \o a) : a \in ArgumentsAttrs}
    \cup {Map(<<Key("return"), Leaf("string", "void")>> \o a) :
             a \in Attr("arguments", {Array(<<>>), Leaf("string", "ab")})}

CoreFuncItems == {LlSay, Map(<<>>)}

FuncNames == <<"llSay", "llGetOwner", "llAbs", "llDie">>

FuncSections ==
    {Section(FuncNames, q) : q \in SeqsOver(CoreFuncItems, FuncItems, MaxFunctions)}

DefaultConstants == Section(ConstNames, <<PlainConst>>)

DefaultEvents ==
    Section(<<"state_entry", "touch_start">>,
            <<Map(<<>>), Map(<<Key("arguments"),
                               ArgArray(<< <<Key("type"), Leaf("string", "integer")>> >>)>>)>>)

DefaultFunctions == Section(FuncNames, <<LlSay>>)

Root(main_children) == Elem("llsd", PyNone, <<Map(main_children)>>)

Document(c, e, f) ==
    Root(<<Key("constants"), c, Key("events"), e, Key("functions"), f>>)

ConstDocs ==
    {Document(c, e, DefaultFunctions) :
        c \in ConstSections,
        e \in {DefaultEvents, Map(<<>>), Section(<<"state_entry">>, <<Map(<<>>)>>)}}

EventDocs == {Document(DefaultConstants, e, DefaultFunctions) : e \in EventSections}

FuncDocs ==
    {Document(DefaultConstants, e, f) :
        f \in FuncSections,
        e \in {DefaultEvents, Section(<<"touch_start">>, <<Map(<<>>)>>)}}

HexConst ==
    ConstItem(<<Key("type"), Leaf("string", "rotation")>>,
              <<Key("value"), Leaf("string", "0x1F")>>)

\* key/value pairs and stray children a top-level map is built from
MainPieces ==
    {<<Key("constants"), DefaultConstants>>,
     <<Key("constants"), Section(ConstNames, <<HexConst, PlainConst>>)>>,
     <<Key("events"), DefaultEvents>>,
     <<Key("functions"), DefaultFunctions>>,
     <<Key("functions"), Map(<<>>)>>,
     <<Key("keywords"), DefaultConstants>>,
     <<Key(""), DefaultEvents>>,
     <<Key("constants"), Leaf("string", "x")>>,
     <<Leaf("string", "events"), DefaultEvents>>}

CoreMainPieces ==
    {<<Key("constants"), DefaultConstants>>,
     <<Key("events"), DefaultEvents>>,
     <<Key("keywords"), DefaultConstants>>}

MainTails == {<<>>, <<Key("functions")>>, <<DefaultEvents>>}

MainShapeDocs ==
    {Root(Flatten(q) \o t) :
        q \in SeqsOver(CoreMainPieces, MainPieces, MaxPairs), t \in MainTails}

\* roots without a map child, or with the map not first
RootShapeDocs ==
    {Elem("llsd", PyNone, <<>>),
     Elem("llsd", PyNone, <<Array(<<Map(<<Key("events"), DefaultEvents>>)>>)>>),
     Elem("map", PyNone, <<Key("events"), Leaf("string", "x")>>),
     Elem("llsd", PyNone, <<Leaf("string", "x"), Map(<<Key("events"), DefaultEvents>>)>>),
     Elem("llsd", PyNone, <<Map(<<Key("events"), DefaultEvents>>),
                            Map(<<Key("functions"), DefaultFunctions>>)>>)}

SectionPieces ==
    {<<Key("TRUE"), PlainConst>>,
     <<Key("PI"), HexConst>>,
     <<Key("TRUE"), ConstItem(<<Key("type"), Leaf("string", "list")>>, <<>>)>>,
     <<Key(""), PlainConst>>,
     <<Key("TRUE"), Leaf("string", "1")>>,
     <<Leaf("string", "EOF"), PlainConst>>}

CoreSectionPieces ==
    {<<Key("TRUE"), PlainConst>>,
     <<Key("PI"), HexConst>>,
     <<Key("TRUE"), Leaf("string", "1")>>}

SectionTails == {<<>>, <<Key("EOF")>>, <<PlainConst>>}

SectionShapeDocs ==
    {Document(Map(Flatten(q) \o t), DefaultEvents, DefaultFunctions) :
        q \in SeqsOver(CoreSectionPieces, SectionPieces, MaxPairs), t \in SectionTails}

ItemPieces ==
    {<<Key("type"), Leaf("string", "float")>>,
     <<Key("type"), Leaf("string", "key")>>,
     <<Key("value"), Leaf("string", "0x1F")>>,
     <<Leaf("string", "type"), Leaf("string", "vector")>>,
     <<Key("tooltip"), Map(<<Key("a"), Leaf("string", "b"), Key("c")>>)>>,
     <<Key("members"), Array(<<Leaf("integer", "-3"), Leaf("real", "2.50"),
                              Map(<<Key("a"), Leaf("date", "x"), Leaf("string", "y")>>)>>)>>,
     <<Key("value"), Leaf("integer", "1x")>>,
     <<Key("tooltip"), Leaf("real", "1.2.3")>>}

CoreItemPieces ==
    {<<Key("type"), Leaf("string", "float")>>,
     <<Key("value"), Leaf("string", "0x1F")>>,
     <<Leaf("string", "type"), Leaf("string", "vector")>>}

ItemTails == {<<>>, <<Key("type")>>, <<Leaf("string", "rotation")>>}

\* the item alone in an even section of an even top-level map, or in a
\* section and a top-level map that both end with a stray child
ItemShapeDocs ==
    {Document(Section(ConstNames, <<Map(Flatten(q) \o t)>>), DefaultEvents, DefaultFunctions) :
        q \in SeqsOver(CoreItemPieces, ItemPieces, MaxPairs), t \in ItemTails}
    \cup
    {Root(<<Key("constants"), Map(<<Key("TRUE"), Map(Flatten(q) \o t), Key("EOF")>>),
           Key("events"), DefaultEvents,
           Key("functions"), DefaultFunctions, Key("keywords")>>) :
        q \in SeqsOver(CoreItemPieces, ItemPieces, MaxPairs), t \in ItemTails}

---------------------------------------------------------------------------
(* The run of main(): parse the document, then generate the script *)

Init ==
    /\ \/ doc \in ConstDocs
       \/ doc \in EventDocs
       \/ doc \in FuncDocs
       \/ doc \in MainShapeDocs
       \/ doc \in RootShapeDocs
       \/ doc \in SectionShapeDocs
       \/ doc \in ItemShapeDocs
    /\ data = PyNone
    /\ lsl_lines = <<>>
    /\ pc = "parse"
    /\ ev = 1
    /\ ci = 1
    /\ fi = 1
    /\ const_value = PyNone
    /\ result = PyNone

\* data = parse_llsd_xml(xml_file)
Parse ==
    /\ pc = "parse"
    /\ LET d == parse_llsd_xml(doc)
       IN  IF IsRaise(d)
           THEN /\ pc' = "parse_failed"
                /\ result' = d
                /\ data' = data
           ELSE /\ pc' = "generate"
                /\ data' = d
                /\ result' = result
    /\ UNCHANGED <<doc, lsl_lines, ev, ci, fi, const_value>>

\* the variable declarations and the opening of the default state
Declarations ==
    /\ pc = "generate"
    /\ lsl_lines' = lsl_lines \o Preamble
    /\ pc' = "events"
    /\ UNCHANGED <<doc, data, ev, ci, fi, const_value, result>>

\* one turn of the loop over data['events'], up to the event's opening brace
EventHeader ==
    /\ pc = "events"
    /\ ev <= Len(Events)
    /\ LET event_name == Events[ev][1]
           event_data == Events[ev][2]
           parameters == get_event_parameters(event_data)
       IN  IF IsRaise(parameters)
           THEN /\ pc' = "raised"
                /\ result' = parameters
                /\ UNCHANGED <<lsl_lines, ci, fi>>
           ELSE /\ lsl_lines' = lsl_lines \o
                      <<"    " \o format(event_name) \o "(" \o param_str(parameters.v) \o ")",
                        "    {">>
                /\ pc' = IF event_name = PyStr("touch_start") THEN "constants" ELSE "empty"
                /\ ci' = 1
                /\ fi' = 1
                /\ result' = result
    /\ UNCHANGED <<doc, data, ev, const_value>>

\* one turn of the loop over data['constants']
ConstantStep ==
    /\ pc = "constants"
    /\ ci <= Len(Constants)
    /\ LET const_name == Constants[ci][1]
           const_data == Constants[ci][2]
           const_type == DictGet(const_data, PyStr("type"), PyStr("integer"))
           value == DictGet(const_data, PyStr("value"), PyStr("0"))
           nv == normalize_value(value)
       IN  IF IsRaise(nv)
           THEN /\ pc' = "raised"
                /\ result' = nv
                /\ const_value' = value
                /\ UNCHANGED <<lsl_lines, ci>>
           ELSE /\ const_value' = nv
                /\ lsl_lines' = Append(lsl_lines,
                      "        " \o const_var(const_type) \o "=" \o format(const_name) \o ";")
                /\ ci' = ci + 1
                /\ UNCHANGED <<pc, result>>
    /\ UNCHANGED <<doc, data, ev, fi>>

\* the two built-in constants and the blank line after them
BuiltIns ==
    /\ pc = "constants"
    /\ ci > Len(Constants)
    /\ lsl_lines' = lsl_lines \o <<"        r=ZERO_ROTATION;", "        v=ZERO_VECTOR;", "">>
    /\ pc' = "functions"
    /\ UNCHANGED <<doc, data, ev, ci, fi, const_value, result>>

\* one turn of the loop over data['functions']
FunctionStep ==
    /\ pc = "functions"
    /\ fi <= Len(Functions)
    /\ LET func_name == Functions[fi][1]
           func_data == Functions[fi][2]
           return_type == DictGet(func_data, PyStr("return"), PyStr("integer"))
           call == func_call(func_name, func_data)
       IN  IF IsRaise(call)
           THEN /\ pc' = "raised"
                /\ result' = call
                /\ UNCHANGED <<lsl_lines, fi>>
           ELSE /\ lsl_lines' = Append(lsl_lines, func_line(return_type, call.v))
                /\ fi' = fi + 1
                /\ UNCHANGED <<pc, result>>
    /\ UNCHANGED <<doc, data, ev, ci, const_value>>

\* the body of another event filled with an assignment
EmptyBody_with_statement ==
    /\ pc = "empty"
    /\ lsl_lines' = Append(lsl_lines, "        i=0;")
    /\ pc' = "close"
    /\ UNCHANGED <<doc, data, ev, ci, fi, const_value, result>>

\* the body of an event other than touch_start
EmptyBody ==
    /\ pc = "empty"
    /\ lsl_lines' = Append(lsl_lines, "        ")
    /\ pc' = "close"
    /\ UNCHANGED <<doc, data, ev, ci, fi, const_value, result>>

\* the closing brace of the event and the blank line after it
CloseEvent ==
    /\ \/ pc = "close"
       \/ pc = "functions" /\ fi > Len(Functions)
    /\ lsl_lines' = lsl_lines \o <<"    }", "">>
    /\ ev' = ev + 1
    /\ pc' = "events"
    /\ UNCHANGED <<doc, data, ci, fi, const_value, result>>

\* the closing brace of the default state and the joined text
Return ==
    /\ pc = "events"
    /\ ev > Len(Events)
    /\ lsl_lines' = Append(lsl_lines, "}")
    /\ result' = PyStr(join("\n", lsl_lines'))
    /\ pc' = "done"
    /\ UNCHANGED <<doc, data, ev, ci, fi, const_value>>

Next ==
    \/ Parse
    \/ Declarations
    \/ EventHeader
    \/ ConstantStep
    \/ BuiltIns
    \/ FunctionStep
    \/ EmptyBody
    \/ CloseEvent
    \/ Return

Spec == Init /\ [][Next]_vars

---------------------------------------------------------------------------
(* Reading the returned text back *)

endswith(s, suffix) ==
    Len(s) >= Len(suffix) /\ SubSeq(s, Len(s) - Len(suffix) + 1, Len(s)) = suffix

\* sub occurs somewhere in s
Contains(s, sub) ==
    \E j \in 1..(Len(s) - Len(sub) + 1) : SubSeq(s, j, j + Len(sub) - 1) = sub

RECURSIVE split(_, _)
\* s.split(sep) for a one-character sep
split(s, sep) ==
    LET hits == {j \in 1..Len(s) : CharAt(s, j) = sep}
    IN  IF hits = {} THEN <<s>>
        ELSE LET j == CHOOSE h \in hits : \A g \in hits : h <= g
             IN  <<SubSeq(s, 1, j - 1)>> \o split(SubSeq(s, j + 1, Len(s)), sep)

\* the lines of the returned script
OutLines == split(result.v, "\n")

Indent4 == "    "

Indent8 == "        "

VarNames == {"f", "i", "k", "l", "q", "r", "s", "v"}

\* an event header: indented by four, neither a brace nor deeper
IsHeaderLine(l) ==
    Len(l) > 4 /\ startswith(l, Indent4) /\ CharAt(l, 5) \notin {" ", "{", "}"}

\* a statement: text indented by eight
IsStatementLine(l) == Len(l) > 8 /\ startswith(l, Indent8)

HeaderIdx(L) == {h \in 1..Len(L) : IsHeaderLine(L[h])}

ActivationIdx(L) == {h \in HeaderIdx(L) : startswith(L[h], Indent4 \o "touch_start(")}

ClosingIdx(L, h) == {c \in (h + 1)..Len(L) : L[c] = Indent4 \o "}"}

\* the line closing the block whose header is line h (0: never closed)
CloseOf(L, h) ==
    IF ClosingIdx(L, h) = {} THEN 0
    ELSE CHOOSE c \in ClosingIdx(L, h) : \A d \in ClosingIdx(L, h) : c <= d

\* the lines between the braces of the block whose header is line h
Body(L, h) == SubSeq(L, h + 2, CloseOf(L, h) - 1)

Statements(lines) == SelectSeq(lines, IsStatementLine)

\* the statement assigns the constant called name to some variable
IsConstAssign(l, name) ==
    \E x \in VarNames : l = Indent8 \o x \o "=" \o format(name) \o ";"

\* the statement is a call of the function called name, assigned or not
IsCallOf(l, name) ==
    /\ endswith(l, ");")
    /\ \E p \in {""} \cup {x \o "=" : x \in VarNames} :
          startswith(l, Indent8 \o p \o format(name) \o "(")

\* the entries name -> attributes of an arguments sequence, flattened
ArgEntries(symbol_data) ==
    LET a == DictGet(symbol_data, PyStr("arguments"), PyList(<<>>))
    IN  IF a.k = "list" THEN Flatten([j \in 1..Len(a.v) |-> a.v[j].v]) ELSE <<>>

DeclaredType(attrs) == DictGet(attrs, PyStr("type"), PyStr("integer"))

HasActivationEvent == \E j \in 1..Len(Events) : Events[j][1] = PyStr("touch_start")

---------------------------------------------------------------------------
(* C1 *)

\* C1: in the returned script every constant of schema.constants is assigned
\* exactly once inside the touch_start block, and both built-in assignments
\* are present, whatever the events section holds.
C1_EveryConstantAssignedOnce ==
    pc = "done" =>
        LET L == OutLines
        IN  /\ \A j \in 1..Len(Constants) :
                  Cardinality({n \in 1..Len(L) :
                      /\ IsConstAssign(L[n], Constants[j][1])
                      /\ \E h \in ActivationIdx(L) : h < n /\ n < CloseOf(L, h)}) = 1
            /\ \E n \in 1..Len(L) : L[n] = Indent8 \o "r=ZERO_ROTATION;"
            /\ \E n \in 1..Len(L) : L[n] = Indent8 \o "v=ZERO_VECTOR;"

(* C2 *)

\* C2: in the returned script every function of schema.functions is called
\* exactly once inside the touch_start block.
C2_EveryFunctionCalledOnce ==
    pc = "done" =>
        LET L == OutLines
        IN  \A j \in 1..Len(Functions) :
                Cardinality({n \in 1..Len(L) :
                    /\ IsCallOf(L[n], Functions[j][1])
                    /\ \E h \in ActivationIdx(L) : h < n /\ n < CloseOf(L, h)}) = 1

(* C3 *)

\* the header the event must get: name(type name, type name, ...)
HeaderOf(event) ==
    LET entries == ArgEntries(event[2])
    IN  Indent4 \o format(event[1]) \o "("
        \o join(", ", [j \in 1..Len(entries) |->
                          format(DeclaredType(entries[j][2])) \o " " \o format(entries[j][1])])
        \o ")"

\* C3: the returned script has exactly one block per event of schema.events,
\* in insertion order, each opened by the header name(P) with P the
\* "type name" of the event's arguments in order (type integer by default,
\* empty P for no arguments) and an opening brace on the next line.
C3_OneBlockPerEvent ==
    pc = "done" =>
        LET L == OutLines
        IN  /\ SelectSeq(L, IsHeaderLine) = [j \in 1..Len(Events) |-> HeaderOf(Events[j])]
            /\ \A h \in HeaderIdx(L) : h < Len(L) /\ L[h + 1] = Indent4 \o "{"

C3_Witness ==
    /\ pc = "done"
    /\ Len(Events) = 2
    /\ ~DictHas(Events[1][2], PyStr("arguments"))
    /\ Len(ArgEntries(Events[2][2])) = 2
    /\ ~DictHas(ArgEntries(Events[2][2])[1][2], PyStr("type"))
    /\ DictHas(ArgEntries(Events[2][2])[2][2], PyStr("type"))

(* C4 *)

\* C4: generate_lsl_script never raises on a Schema the parser produced.
C4_GenerateNeverRaises == pc # "raised"

(* C5 *)

\* the literal the value text stands for: hex kept, integer text in decimal,
\* any other text in double quotes
LiteralOf(text) ==
    IF startswith(text, "0x") THEN text
    ELSE IF IsDigitRun(Unsigned(strip(text))) THEN str_of_int(int_of_str(text).v)
    ELSE "\"" \o text \o "\""

ValueOf(const_data) == DictGet(const_data, PyStr("value"), PyStr("0"))

\* C5 as stated: the literal of every constant's value text (the text itself
\* for a hex value) is part of the returned script.
C5_LiteralEmitted ==
    (pc = "done" /\ HasActivationEvent) =>
        \A j \in 1..Len(Constants) :
            ValueOf(Constants[j][2]).k = "str" =>
                Contains(result.v, LiteralOf(ValueOf(Constants[j][2]).v))

\* C5 amended: after the turn for a constant, const_value holds the value
\* text unchanged when it starts with 0x, else its integer in decimal, else
\* the text in quotes; the line emitted for the constant is only X=name;
\* and carries no literal.
C5_LiteralNormalizedNotEmitted ==
    (pc = "constants" /\ ci > 1) =>
        LET const == Constants[ci - 1]
            value == ValueOf(const[2])
        IN  /\ value.k = "str"
            /\ const_value = PyStr(LiteralOf(value.v))
            /\ startswith(value.v, "0x") => const_value = value
            /\ IsConstAssign(lsl_lines[Len(lsl_lines)], const[1])

C5_Witness ==
    /\ pc = "constants"
    /\ ci > 1
    /\ ValueOf(Constants[ci - 1][2]) = PyStr("0x1F")
    /\ const_value = PyStr("0x1F")
    /\ ~Contains(lsl_lines[Len(lsl_lines)], "0x1F")

(* C6 *)

\* the variable of each declared type in the preamble
PreambleVar ==
    [float |-> "f", integer |-> "i", key |-> "k", list |-> "l",
     quaternion |-> "q", rotation |-> "r", string |-> "s", vector |-> "v"]

PreambleVarOf(type) ==
    IF type.k = "str" /\ type.v \in DOMAIN PreambleVar THEN PreambleVar[type.v] ELSE "i"

\* C6: the assignment of every constant targets the preamble variable of its
\* declared type (integer when absent), i only for a type outside the eight.
C6_ConstantTargetsDeclaredType ==
    pc = "done" =>
        LET L == OutLines
        IN  \A h \in ActivationIdx(L) : \A j \in 1..Len(Constants) :
                Statements(Body(L, h))[j] =
                    Indent8 \o PreambleVarOf(DeclaredType(Constants[j][2]))
                    \o "=" \o format(Constants[j][1]) \o ";"

(* C7 *)

\* the variable of each type category
CategoryVar ==
    [integer |-> "i", float |-> "f", string |-> "s", key |-> "k",
     vector |-> "v", rotation |-> "r", list |-> "l"]

CategoryVarOf(type) ==
    IF type.k = "str" /\ type.v \in DOMAIN CategoryVar THEN CategoryVar[type.v] ELSE "i"

\* the statement a function must get
StatementOf(function) ==
    LET entries == ArgEntries(function[2])
        call == format(function[1]) \o "("
                \o join(", ", [j \in 1..Len(entries) |->
                                  CategoryVarOf(DeclaredType(entries[j][2]))])
                \o ")"
        return == DictGet(function[2], PyStr("return"), PyStr("integer"))
    IN  IF return = PyStr("void") THEN Indent8 \o call \o ";"
        ELSE Indent8 \o CategoryVarOf(return) \o "=" \o call \o ";"

\* C7: the statement emitted for a function is name(a1, ..., an) with the
\* category variable of each argument in order (i by default), standalone
\* when return is void and else assigned to the variable of the return type
\* (i by default): as soon as it is emitted, and in the returned script.
C7_FunctionStatement ==
    /\ (pc = "functions" /\ fi > 1) =>
           lsl_lines[Len(lsl_lines)] = StatementOf(Functions[fi - 1])
    /\ pc = "done" =>
           LET L == OutLines
           IN  \A h \in ActivationIdx(L) : \A j \in 1..Len(Functions) :
                   Statements(Body(L, h))[Len(Constants) + 2 + j] = StatementOf(Functions[j])

C7_Witness ==
    /\ pc = "done"
    /\ Len(Functions) = 2
    /\ \E n \in 1..Len(OutLines) : OutLines[n] = Indent8 \o "llSay(i, s);"
    /\ DictGet(Functions[2][2], PyStr("return"), PyNone) = PyStr("key")
    /\ Len(ArgEntries(Functions[2][2])) = 2
    /\ \E n \in 1..Len(OutLines) : OutLines[n] = Indent8 \o "k=llGetOwner(l, i);"

(* C8 *)

RECURSIVE Descendants(_)
\* the elements below e, at any depth
Descendants(e) ==
    UNION {{e.children[j]} \cup Descendants(e.children[j]) : j \in 1..Len(e.children)}

\* the top-level map, the maps that can stand for a section, and the maps
\* that can stand for an item or for a nested map value
MainMaps == {find_map(doc)[j] : j \in 1..(IF find_map(doc) = <<>> THEN 0 ELSE 1)}

SectionMaps ==
    {c \in UNION {{m.children[j] : j \in 1..Len(m.children)} : m \in MainMaps} :
        c.tag = "map"}

ItemMaps == {c \in UNION {Descendants(m) : m \in SectionMaps} : c.tag = "map"}

\* children 2j and 2j+1 (counted from 0) form pair j+1, for 2j+1 < child count
NPairs(m) == Len(m.children) \div 2

KeyChild(m, p) == m.children[2 * p - 1]

ValueChild(m, p) == m.children[2 * p]

WithoutLast(m) == Elem(m.tag, m.text, SubSeq(m.children, 1, Len(m.children) - 1))

Keys(d) == [x \in 1..Len(d.v) |-> d.v[x][1]]

\* d holds exactly the pairs of m in kept: one entry per key text, placed at
\* the key's first pair, holding value(p) of the key's last pair
HoldsPairs(d, m, kept, value(_)) ==
    LET First(key) == CHOOSE p \in kept :
                         /\ KeyChild(m, p).text = key
                         /\ \A q \in kept : KeyChild(m, q).text = key => p <= q
        Last(key) == CHOOSE p \in kept :
                         /\ KeyChild(m, p).text = key
                         /\ \A q \in kept : KeyChild(m, q).text = key => q <= p
    IN  /\ {d.v[x][1] : x \in 1..Len(d.v)} = {KeyChild(m, p).text : p \in kept}
        /\ \A x, y \in 1..Len(d.v) :
              x < y => First(d.v[x][1]) < First(d.v[y][1])
        /\ \A x \in 1..Len(d.v) : d.v[x][2] = value(ValueChild(m, Last(d.v[x][1])))

\* an item keeps every pair led by a key element, whatever the value's tag
ItemPairing(m) ==
    LET d == parse_item(m)
        kept == {p \in 1..NPairs(m) : KeyChild(m, p).tag = "key"}
    IN  /\ IsRaise(d) <=> \E p \in kept : IsRaise(parse_value(ValueChild(m, p)))
        /\ ~IsRaise(d) => HoldsPairs(d, m, kept, parse_value)
        /\ Len(m.children) % 2 = 1 => d = parse_item(WithoutLast(m))

\* a section keeps the pairs led by a key element whose value is a map
SectionPairing(m) ==
    LET d == parse_section(m)
        kept == {p \in 1..NPairs(m) :
                    KeyChild(m, p).tag = "key" /\ ValueChild(m, p).tag = "map"}
    IN  /\ IsRaise(d) <=> \E p \in kept : IsRaise(parse_item(ValueChild(m, p)))
        /\ ~IsRaise(d) => HoldsPairs(d, m, kept, parse_item)
        /\ Len(m.children) % 2 = 1 => d = parse_section(WithoutLast(m))

SectionNames == {PyStr("constants"), PyStr("events"), PyStr("functions")}

\* the top level keeps the pairs led by a key element naming a section
\* whose value is a map
MainPairing(m) ==
    LET kept == {p \in 1..NPairs(m) :
                    /\ KeyChild(m, p).tag = "key"
                    /\ ValueChild(m, p).tag = "map"
                    /\ KeyChild(m, p).text \in SectionNames}
        failed == \E p \in kept : IsRaise(parse_section(ValueChild(m, p)))
    IN  /\ pc = "parse_failed" <=> failed
        /\ pc = "generate" =>
              /\ \A p \in kept :
                    (\A q \in kept : KeyChild(m, q).text = KeyChild(m, p).text => q <= p)
                    => DictGet(data, KeyChild(m, p).text, PyNone)
                          = parse_section(ValueChild(m, p))
              /\ Len(m.children) % 2 = 1 =>
                    data = parse_llsd_xml(Elem("llsd", PyNone, <<WithoutLast(m)>>))

\* C8: once the document is parsed, every map was paired positionally at its
\* level: the pairs are children (2j, 2j+1), an odd last child is dropped
\* without error and changes nothing, sections and items come only from pairs
\* whose value is a map, and an item keeps a pair whatever its value's tag.
C8_PositionalPairing ==
    pc \in {"generate", "parse_failed"} =>
        /\ \A m \in MainMaps : MainPairing(m)
        /\ \A m \in SectionMaps : SectionPairing(m)
        /\ \A m \in ItemMaps : ItemPairing(m)

\* a top-level map, a section and an item that each end with a stray child,
\* the item keeping two attributes, one of them an array
C8_Witness ==
    /\ pc = "generate"
    /\ \E m \in MainMaps : Len(m.children) = 7
    /\ \E m \in SectionMaps :
          /\ Len(m.children) = 3
          /\ Len(m.children[2].children) = 5
          /\ m.children[2].children[4].tag = "array"
    /\ Len(Constants) = 1
    /\ Len(Constants[1][2].v) = 2
    /\ Len(Events) = 2

(* C9 *)

\* the top-level pairs that can populate the section called name
SectionPairs(m, name) ==
    {p \in 1..NPairs(m) :
        /\ KeyChild(m, p).tag = "key"
        /\ KeyChild(m, p).text = name
        /\ ValueChild(m, p).tag = "map"}

\* m without the pairs whose key text is not the name of a section
RECURSIVE KnownPairs(_, _)
KnownPairs(m, p) ==
    IF p > NPairs(m) THEN <<>>
    ELSE (IF KeyChild(m, p).text \in SectionNames
          THEN <<KeyChild(m, p), ValueChild(m, p)>> ELSE <<>>)
         \o KnownPairs(m, p + 1)

C10_StatementsOnlyInActivation ==
    pc = "done" =>
        LET L == OutLines
        IN  /\ L[Len(L)] = "}"
            /\ \A h \in HeaderIdx(L) :
                  /\ L[h + 1] = Indent4 \o "{"
                  /\ CloseOf(L, h) > h + 1
                  /\ CloseOf(L, h) < Len(L)
                  /\ \A n \in (h + 1)..CloseOf(L, h) : n \notin HeaderIdx(L)
                  /\ \A n \in (h + 2)..(CloseOf(L, h) - 1) : L[n] # Indent4 \o "{"
            /\ \A n \in 1..Len(L) :
                  IsStatementLine(L[n]) =>
                      \E h \in ActivationIdx(L) : h < n /\ n < CloseOf(L, h)
            /\ \A h \in HeaderIdx(L) \ ActivationIdx(L) : Body(L, h) = <<Indent8>>
            /\ \A h \in ActivationIdx(L) :
                  LET st == Statements(Body(L, h))
                      nc == Len(Constants)
                      nf == Len(Functions)
                  IN  /\ Len(st) = nc + 2 + nf
                      /\ \A j \in 1..nc : IsConstAssign(st[j], Constants[j][1])
                      /\ st[nc + 1] = Indent8 \o "r=ZERO_ROTATION;"
                      /\ st[nc + 2] = Indent8 \o "v=ZERO_VECTOR;"
                      /\ \A j \in 1..nf : IsCallOf(st[nc + 2 + j], Functions[j][1])

C10_Witness ==
    /\ pc = "done"
    /\ Len(Constants) = 2
    /\ Len(Functions) = 1
    /\ Len(Events) = 2
    /\ Events[2][1] = PyStr("touch_start")
    /\ Len(Statements(OutLines)) = 5

====
